---------------------------- MODULE Spec2Model ----------------------------
(***************************************************************************)
(* Model of the Correlation helpers of ZLoverty/Python-GUI:                *)
(*   - py_files/df2_nobp.py : the windowed density-fluctuation estimator   *)
(*   - corr_utils.py        : postprocess_gnf, the range-limit handling of *)
(*                            the plotting helpers, average_data           *)
(* Real numbers are kept exact: window sizes are decided by exact integer  *)
(* comparisons, standard deviations are kept as radicands, quotients as    *)
(* fractions.  Floating-point rounding is modelled where it can change a   *)
(* result: the floor of a log-spaced sample that is exactly an integer,    *)
(* and the running sums of average_data.                                   *)
(***************************************************************************)
EXTENDS Integers, Sequences, FiniteSets, TLC

(***************************************************************************)
(* Bounds of the model.                                                    *)
(***************************************************************************)
MaxL == 24          \* largest shorter side of a frame, in pixels
MaxFrames == 2      \* largest number of frames in the input folder
MaxLevel == 1       \* pixel values are 0..MaxLevel

(***************************************************************************)
(* Program constants.                                                      *)
(***************************************************************************)
size_min == 5       \* df2_nobp.py:14
LogspaceNum == 100  \* df2_nobp.py:18, number of log-spaced samples
step == 50 * size_min   \* df2_nobp.py:15

-----------------------------------------------------------------------------
(***************************************************************************)
(* Exact natural numbers of any size: little-endian sequences of base-10^4 *)
(* digits without leading zero digits (<< >> is 0).  They are needed only  *)
(* to decide floor(size_min * ((L-size_min)/(2*size_min))^(i/99)) exactly. *)
(***************************************************************************)
\* digits lo..hi of a * m + carry-in, and the carry out of digit hi.  The
\* recursion halves the range, so its depth is logarithmic in the length.
RECURSIVE BigMulRange(_, _, _, _, _)
BigMulRange(a, m, lo, hi, cin) ==
    IF cin >= 0 /\ lo = hi
    THEN LET t == a[lo] * m + cin
         IN  [digits |-> << t % 10000 >>, carry |-> t \div 10000]
    ELSE LET mid   == (lo + hi) \div 2
             left  == BigMulRange(a, m, lo, mid, cin)
             right == BigMulRange(a, m, mid + 1, hi, left.carry)
         IN  [digits |-> left.digits \o right.digits, carry |-> right.carry]

\* a * m for a small natural m (m < 10^4)
BigMul(a, m) ==
    IF m = 0 \/ a = << >> THEN << >>
    ELSE LET r == BigMulRange(a, m, 1, Len(a), 0)
         IN  IF r.carry = 0 THEN r.digits ELSE Append(r.digits, r.carry)

\* a * m^e
RECURSIVE BigMulPow(_, _, _)
BigMulPow(a, m, e) ==
    IF Len(a) >= 0 /\ e = 0 THEN a
    ELSE IF e = 1 THEN BigMul(a, m)
    ELSE BigMulPow(BigMulPow(a, m, e \div 2), m, e - e \div 2)

BigPow(m, e) == BigMulPow(<< 1 >>, m, e)

\* digit j (1 = least significant) of a * 10^(4z)
BigDigitShifted(a, z, j) == IF j <= z THEN 0 ELSE a[j - z]

RECURSIVE BigCmpFrom(_, _, _, _)
BigCmpFrom(a, z, b, j) ==
    IF j = 0 THEN 0
    ELSE LET x == BigDigitShifted(a, z, j)
         IN  IF x < b[j] THEN -1
             ELSE IF x > b[j] THEN 1
             ELSE BigCmpFrom(a, z, b, j - 1)

\* sign of a * 10^(4z) - b
BigCmpShifted(a, z, b) ==
    LET la == IF a = << >> THEN 0 ELSE Len(a) + z
    IN  IF la < Len(b) THEN -1
        ELSE IF la > Len(b) THEN 1
        ELSE BigCmpFrom(a, z, b, la)

Pow10(j) == IF j = 0 THEN 1 ELSE IF j = 1 THEN 10 ELSE IF j = 2 THEN 100 ELSE 1000


-----------------------------------------------------------------------------
(***************************************************************************)
(* The window-size set (df2_nobp.py:16-18, corr_utils.py:516-518):         *)
(*   boxsize = unique(floor(logspace(log10(size_min),                      *)
(*                                   log10((L-size_min)/2), 100)))         *)
(* Sample i (0..99) is v_i = size_min * ((L-size_min)/(2*size_min))^(i/99),*)
(* so for a natural k:                                                     *)
(*   v_i >= k  <=>  size_min^99 * (L-size_min)^i >= k^99 * (2*size_min)^i. *)
(* 2*size_min is 10, and 10^i = 10^(i mod 4) * (10^4)^(i div 4) is a digit *)
(* shift of the base-10^4 numbers.                                         *)
(***************************************************************************)
LogspaceExp == LogspaceNum - 1

\* the shorter sides for which log10((L-size_min)/2) is a finite number
Sides == (size_min + 1)..MaxL

\* every sample lies between size_min and (L-size_min)/2
MaxFloor == IF (MaxL - size_min) \div 2 > size_min
            THEN (MaxL - size_min) \div 2 ELSE size_min

\* k^99 * 10^j, j in 0..3
PowTable == [c \in 0..(MaxFloor + 1) |->
                [j \in 0..3 |-> BigMul(BigPow(c, LogspaceExp), Pow10(j))]]

\* sign of c^99 * 10^i - lhs
CmpSample(c, i, lhs) == BigCmpShifted(PowTable[c][i % 4], i \div 4, lhs)

\* floor(v_i), and whether v_i is exactly that integer; lhs = size_min^99 * (L-size_min)^i
FloorSample(i, lhs) ==
    LET c == CHOOSE c \in 0..MaxFloor :
                 /\ CmpSample(c, i, lhs) <= 0
                 /\ CmpSample(c + 1, i, lhs) > 0
    IN  [floor |-> c, exact |-> CmpSample(c, i, lhs) = 0]

\* the samples lo..hi, given lhs for sample lo; `next` is lhs for sample hi+1
RECURSIVE LogspaceFloors(_, _, _, _)
LogspaceFloors(d, lo, hi, lhs) ==
    IF Len(lhs) >= 0 /\ lo = hi
    THEN [samples |-> << FloorSample(lo, lhs) >>, next |-> BigMul(lhs, d)]
    ELSE LET mid   == (lo + hi) \div 2
             left  == LogspaceFloors(d, lo, mid, lhs)
             right == LogspaceFloors(d, mid + 1, hi, left.next)
         IN  [samples |-> left.samples \o right.samples, next |-> right.next]

\* the 100 samples for a first frame of shorter side `side`
LogspaceSamples(side) ==
    LogspaceFloors(side - size_min, 0, LogspaceNum - 1,
                   BigPow(size_min, LogspaceExp)).samples

(***************************************************************************)
(* np.floor of the computed samples.  A computed sample is a double next   *)
(* to v_i, so its floor is floor(v_i) unless v_i is exactly an integer k:  *)
(* then the double may be just below k and floor gives k-1 (for L = 21,    *)
(* 10**log10(8.0) is 7.999999999999999).  The samples whose exponent is    *)
(* the start exponent log10(size_min) are 10**log10(5.0), which is         *)
(* 5.000000000000001: their floor is size_min.  A sample whose exponent is *)
(* log10(1.0) = 0 is 10**0 = 1.0 exactly.                                  *)
(***************************************************************************)
SoftSamples(side, samples) ==
    {i \in 1..LogspaceNum : /\ samples[i].exact
                            /\ i > 1
                            /\ side - size_min # 2 * size_min
                            /\ samples[i].floor # 1}

FloorSets(side, samples) ==
    {{samples[i].floor - (IF i \in low THEN 1 ELSE 0) : i \in 1..LogspaceNum}
        : low \in SUBSET SoftSamples(side, samples)}

\* np.unique: the distinct values in increasing order
RECURSIVE SortedSeq(_)
SortedSeq(S) ==
    IF S = {} THEN << >>
    ELSE LET m == CHOOSE x \in S : \A y \in S : x <= y
         IN  << m >> \o SortedSeq(S \ {m})

\* the values boxsize can take for a first frame of shorter side `side`
Boxsizes(side) == {SortedSeq(S) : S \in FloorSets(side, LogspaceSamples(side))}

-----------------------------------------------------------------------------
(***************************************************************************)
(* Exact arithmetic on the values the programs compute.                    *)
(***************************************************************************)
RECURSIVE Gcd(_, _)
Gcd(a, b) == IF b = 0 THEN a ELSE Gcd(b, a % b)

RECURSIVE SeqSum(_)
SeqSum(xs) == IF xs = << >> THEN 0 ELSE Head(xs) + SeqSum(Tail(xs))

Square(v) == v * v

\* the squares of the values xs
Squares(xs) == [i \in 1..Len(xs) |-> Square(xs[i])]

\* the fraction num/den in lowest terms (den > 0)
Frac(num, den) ==
    LET g == Gcd(IF num < 0 THEN -num ELSE num, den)
    IN  [num |-> num \div g, den |-> den \div g]

FracAdd(p, q) == Frac(p.num * q.den + q.num * p.den, p.den * q.den)

RECURSIVE FracSum(_)
FracSum(ps) == IF ps = << >> THEN Frac(0, 1) ELSE FracAdd(Head(ps), FracSum(Tail(ps)))

\* floor(sqrt(a)) by bisection of lo..hi (lo*lo <= a < (hi+1)*(hi+1))
RECURSIVE IsqrtIn(_, _, _)
IsqrtIn(a, lo, hi) ==
    IF lo = hi THEN lo
    ELSE LET mid == (lo + hi + 1) \div 2
         IN  IF mid * mid <= a THEN IsqrtIn(a, mid, hi) ELSE IsqrtIn(a, lo, mid - 1)

Isqrt(a) == IsqrtIn(a, 0, 46340)

\* the largest c with c*c dividing a (a > 0)
SquarePart(a) ==
    LET S == {c \in 1..Isqrt(a) : a % (c * c) = 0}
    IN  CHOOSE c \in S : \A y \in S : y <= c

\* coef * sqrt(rad) / den as q * sqrt(f) with f squarefree; "nan" when den = 0
SurdNorm(t) ==
    IF t.den = 0 THEN [nan |-> TRUE, q |-> Frac(0, 1), f |-> 1]
    ELSE IF t.rad = 0 \/ t.coef = 0 THEN [nan |-> FALSE, q |-> Frac(0, 1), f |-> 1]
    ELSE LET c == SquarePart(t.rad)
         IN  [nan |-> FALSE, q |-> Frac(t.coef * c, t.den), f |-> t.rad \div (c * c)]

SurdIsZero(t) == LET v == SurdNorm(t) IN ~v.nan /\ v.q.num = 0

\* the value (sum of the surds of m.terms) / m.den is 0
MeanIsZero(m) == m.den # 0 /\ \A i \in 1..Len(m.terms) : SurdIsZero(m.terms[i])

\* the value (sum of the surds of m.terms) / m.den equals the surd t; square
\* roots of distinct squarefree numbers are linearly independent over the
\* rationals, so the sum is compared squarefree part by squarefree part
MeanEqualsSurd(m, t) ==
    LET vt == SurdNorm(t)
        vs == [i \in 1..Len(m.terms) |-> SurdNorm(m.terms[i])]
        nz == SelectSeq(vs, LAMBDA v : v.q.num # 0)
        qs == [i \in 1..Len(nz) |-> nz[i].q]
        total == FracSum(qs)
    IN  /\ m.den # 0 /\ ~vt.nan
        /\ \A i \in 1..Len(vs) : ~vs[i].nan
        /\ IF nz = << >> THEN vt.q.num = 0
           ELSE /\ vt.q.num # 0
                /\ \A i \in 1..Len(nz) : nz[i].f = vt.f
                /\ Frac(total.num, total.den * m.den) = vt.q

\* a drop_duplicates that drops nothing
KeepAll(xs) == xs

\* pandas drop_duplicates: the first occurrence of every value, in order
RECURSIVE DropDuplicatesFrom(_, _)
DropDuplicatesFrom(xs, seen) ==
    IF xs = << >> THEN << >>
    ELSE IF Head(xs) \in seen THEN DropDuplicatesFrom(Tail(xs), seen)
    ELSE << Head(xs) >> \o DropDuplicatesFrom(Tail(xs), seen \cup {Head(xs)})

DropDuplicates(xs) == DropDuplicatesFrom(xs, {})

\* the sample standard deviation (ddof = 1): sqrt(rad / (k * (k - 1)))
NpStdSample(xs) ==
    LET cnt == Len(xs)
        rad == cnt * SeqSum(Squares(xs)) - Square(SeqSum(xs))
    IN  [rad |-> rad * cnt * (cnt - 1), den |-> cnt * (cnt - 1)]

(***************************************************************************)
(* numpy's population standard deviation of the values xs (ddof = 0):      *)
(*   std = sqrt(mean((x - mean)^2)) = sqrt(k*sum(x^2) - sum(x)^2) / k,     *)
(* kept as the radicand and the denominator.                               *)
(***************************************************************************)
NpStd(xs) ==
    LET cnt == Len(xs)
    IN  [rad |-> cnt * SeqSum(Squares(xs)) - Square(SeqSum(xs)), den |-> cnt]

-----------------------------------------------------------------------------
(***************************************************************************)
(* Frames.  Every frame of a sequence has the same shape h x w with        *)
(* h <= w (h is the shorter side L).  The frames enumerated here have a    *)
(* pixel value that is constant on each column block of `step` pixels, so  *)
(* a frame is the sequence of its block values.                            *)
(***************************************************************************)
\* frames of one column block (w = h) and of two (w = h + step)
Shapes == {[h |-> side, w |-> side + c * step] : side \in Sides, c \in {0, 1}}

NumBlocks(shape) == (shape.w - 1) \div step + 1

Images(shape) == [1..NumBlocks(shape) -> 0..MaxLevel]

Pixel(img, px, py) == img[px \div step + 1]

(***************************************************************************)
(* corrLib.divide_windows(img, windowsize=[bs, bs], step=step): the frame  *)
(* is tiled with bs x bs windows whose corners are `step` apart, and each  *)
(* window's summed pixel intensity is recorded (row-major order).          *)
(***************************************************************************)
RECURSIVE RowSum(_, _, _, _)
RowSum(img, px, py, count) ==
    IF count = 0 THEN 0 ELSE Pixel(img, px, py) + RowSum(img, px + 1, py, count - 1)

RECURSIVE WindowSum(_, _, _, _, _)
WindowSum(img, px, py, bs, rows) ==
    IF rows = 0 THEN 0
    ELSE RowSum(img, px, py, bs) + WindowSum(img, px, py + 1, bs, rows - 1)

\* number of window positions along a side of length len
NumWindows(len, bs, stp) == IF bs > len THEN 0 ELSE (len - bs) \div stp + 1

WindowFits(shape, bs) == bs >= 1 /\ bs <= shape.h /\ bs <= shape.w

divide_windows(img, shape, bs, stp) ==
    LET ncol == NumWindows(shape.w, bs, stp)
        nrow == NumWindows(shape.h, bs, stp)
    IN  [w \in 1..(nrow * ncol) |->
            WindowSum(img, ((w - 1) % ncol) * stp, ((w - 1) \div ncol) * stp, bs, bs)]

-----------------------------------------------------------------------------
(***************************************************************************)
(* df2_nobp.py                                                             *)
(***************************************************************************)
VARIABLES
    prog,       \* which entry point runs: the script, or corr_utils.df2
    pc,         \* position in the program
    shape,      \* shape of the frames in the input folder
    nframes,    \* number of frames in the input folder (len(l))
    boxsize,    \* the window-size set
    logfile,    \* lines of log.txt
    frames,     \* the frames read so far by the loop (img of each iteration)
    num,        \* index of the frame the loop is at
    df,         \* rows (I, t, size, number)
    df_out,     \* rows (n, d, size, number)
    average,    \* rows (n, d)
    csv,        \* the CSV files written to output_folder, in order: << >> while none,
                \* << table >> once df_average.csv is written
    err,        \* the uncaught exception, "" while none
    call,       \* corr_utils: the function called last and its arguments
    ret,        \* corr_utils: what that call returned or raised
    directory,  \* average_data: the tables of the files of the directory, as listed
    k,          \* average_data: number of files added to temp
    temp,       \* average_data: the running sum, << >> while unbound
    filedata,   \* average_data: `data`, the file read last, << >> while unbound
    averaged    \* average_data: the returned table, << >> while none

estVars == << prog, pc, shape, nframes, boxsize, logfile, frames, num, df, df_out,
              average, csv, err >>

postVars == << call, ret >>

avgVars == << directory, k, temp, filedata, averaged >>

vars == << estVars, postVars, avgVars >>

NoCall == [fn |-> "none"]

PostIdle == call = NoCall /\ ret = NoCall

AvgIdle ==
    directory = << >> /\ k = 0 /\ temp = << >> /\ filedata = << >> /\ averaged = << >>

NoFile == << >>

EstInit ==
    /\ prog \in {"df2_nobp", "df2"}
    /\ pc = "start"
    /\ shape \in Shapes
    /\ nframes \in 0..MaxFrames
    /\ boxsize = << >>
    /\ logfile = << >>
    /\ frames = << >>
    /\ num = 0
    /\ df = << >>
    /\ df_out = << >>
    /\ average = << >>
    /\ csv = NoFile
    /\ err = ""
    /\ PostIdle
    /\ AvgIdle

\* an exception that is swallowed: the script goes on where it was
FailAndGoOn(e) == pc' = pc /\ err' = e

\* an uncaught exception ends the script
Fail(e) == pc' = "error" /\ err' = e

\* corr_utils.df2: readseq, io and divide_windows are not names of the module
Df2Call ==
    /\ prog = "df2" /\ pc = "start"
    /\ Fail("NameError")
    /\ UNCHANGED << prog, shape, nframes, boxsize, logfile, frames, num, df, df_out,
                    average, csv >>
    /\ UNCHANGED << postVars, avgVars >>

\* lines 12-18: l.Dir.loc[0] needs a first frame
ReadFirstFails ==
    /\ prog = "df2_nobp" /\ pc = "start"
    /\ nframes = 0
    /\ Fail("KeyError")
    /\ UNCHANGED << prog, shape, nframes, boxsize, logfile, frames, num, df, df_out,
                    average, csv >>
    /\ UNCHANGED << postVars, avgVars >>

\* L = min(img.shape)
ShorterSide(sh) == IF sh.h <= sh.w THEN sh.h ELSE sh.w

ComputeBoxsize ==
    /\ prog = "df2_nobp" /\ pc = "start"
    /\ nframes > 0
    /\ boxsize' \in Boxsizes(ShorterSide(shape))
    /\ pc' = "open_log"
    /\ UNCHANGED << prog, shape, nframes, logfile, frames, num, df, df_out, average,
                    csv, err >>
    /\ UNCHANGED << postVars, avgVars >>

LogLine(kind, val) == [kind |-> kind, val |-> val]

\* lines 20-27: log.txt is opened with 'w' and gets the two parameter lines
OpenLog ==
    /\ pc = "open_log"
    /\ logfile' = << LogLine("size_min", size_min), LogLine("step", step) >>
    /\ num' = 1
    /\ pc' = "frame_log"
    /\ UNCHANGED << prog, shape, nframes, boxsize, frames, df, df_out, average, csv, err >>
    /\ UNCHANGED << postVars, avgVars >>

\* lines 29-30: the frame's line is appended at the top of the loop body
LogFrame ==
    /\ pc = "frame_log"
    /\ logfile' = Append(logfile, LogLine("calculated", num))
    /\ pc' = "frame_compute"
    /\ UNCHANGED << prog, shape, nframes, boxsize, frames, num, df, df_out, average,
                    csv, err >>
    /\ UNCHANGED << postVars, avgVars >>

\* lines 35-36: the rows of one window size of one frame
TempDf(img, t, bs) ==
    LET I == divide_windows(img, shape, bs, step)
    IN  [w \in 1..Len(I) |-> [I |-> I[w], t |-> t, size |-> bs, number |-> w - 1]]

\* lines 33-37: framedf, the rows of all window sizes from position j on
RECURSIVE FrameDf(_, _, _)
FrameDf(img, t, j) ==
    IF j > Len(boxsize) THEN << >>
    ELSE TempDf(img, t, boxsize[j]) \o FrameDf(img, t, j + 1)

AllWindowsFit == \A j \in 1..Len(boxsize) : WindowFits(shape, boxsize[j])

\* lines 31-38: one frame is read and its rows are appended to df
ComputeFrame ==
    /\ pc = "frame_compute"
    /\ AllWindowsFit
    /\ \E img \in Images(shape) :
          /\ frames' = Append(frames, img)
          /\ df' = df \o FrameDf(img, num, 1)
    /\ num' = num + 1
    /\ pc' = IF num < nframes THEN "frame_log" ELSE "df_out"
    /\ UNCHANGED << prog, shape, nframes, boxsize, logfile, df_out, average, csv, err >>
    /\ UNCHANGED << postVars, avgVars >>

\* line 34 raises for a window size no window of which fits the frame
ComputeFrameFails ==
    /\ pc = "frame_compute"
    /\ ~AllWindowsFit
    /\ Fail("ValueError")
    /\ UNCHANGED << prog, shape, nframes, boxsize, logfile, frames, num, df, df_out,
                    average, csv >>
    /\ UNCHANGED << postVars, avgVars >>

\* line 31: io.imread raises for a frame file it cannot read
ReadFrameFails ==
    /\ pc = "frame_compute"
    /\ Fail("OSError")
    /\ UNCHANGED << prog, shape, nframes, boxsize, logfile, frames, num, df, df_out,
                    average, csv >>
    /\ UNCHANGED << postVars, avgVars >>

\* a column of a table
Column(rows, name) == [i \in 1..Len(rows) |-> rows[i][name]]

\* a selection that keeps the rows of every window
Subdata1All(rows, number) == rows

\* line 42: df.loc[df.number == number]
Subdata1(rows, number) == SelectSeq(rows, LAMBDA r : r.number = number)

\* line 44: subdata1.loc[subdata1['size'] == s]
Subdata(rows1, s) == SelectSeq(rows1, LAMBDA r : r.size = s)

\* lines 45-47: d = s**2 * std(subdata.I), the value coef * sqrt(rad) / den
DfOutRow(subdata, s, number) ==
    LET sd == NpStd(Column(subdata, "I"))
    IN  [n |-> s * s,
         d |-> [coef |-> s * s, rad |-> sd.rad, den |-> sd.den],
         size |-> s, number |-> number]

\* lines 43-48: the inner loop over the sizes of one window number
RECURSIVE DfOutSizes(_, _, _)
DfOutSizes(rows1, sizes, number) ==
    IF sizes = << >> THEN << >>
    ELSE << DfOutRow(Subdata(rows1, Head(sizes)), Head(sizes), number) >>
         \o DfOutSizes(rows1, Tail(sizes), number)

\* lines 41-48: the outer loop over the window numbers
RECURSIVE DfOutNumbers(_, _)
DfOutNumbers(rows, numbers) ==
    IF numbers = << >> THEN << >>
    ELSE LET rows1 == Subdata1(rows, Head(numbers))
         IN  DfOutSizes(rows1, DropDuplicates(Column(rows1, "size")), Head(numbers))
             \o DfOutNumbers(rows, Tail(numbers))

ComputeDfOut ==
    /\ pc = "df_out"
    /\ df_out' = DfOutNumbers(df, DropDuplicates(Column(df, "number")))
    /\ pc' = "average"
    /\ UNCHANGED << prog, shape, nframes, boxsize, logfile, frames, num, df, average,
                    csv, err >>
    /\ UNCHANGED << postVars, avgVars >>

\* line 53: the column means of the rows of one size; d is the value
\* (sum of the terms) / den
AverageRow(subdata) ==
    [n |-> Frac(SeqSum(Column(subdata, "n")), Len(subdata)),
     d |-> [terms |-> Column(subdata, "d"), den |-> Len(subdata)]]

\* lines 51-54
RECURSIVE AverageSizes(_, _)
AverageSizes(rows, sizes) ==
    IF sizes = << >> THEN << >>
    ELSE << AverageRow(Subdata(rows, Head(sizes))) >> \o AverageSizes(rows, Tail(sizes))

ComputeAverage ==
    /\ pc = "average"
    /\ average' = AverageSizes(df_out, DropDuplicates(Column(df_out, "size")))
    /\ pc' = "write"
    /\ UNCHANGED << prog, shape, nframes, boxsize, logfile, frames, num, df, df_out,
                    csv, err >>
    /\ UNCHANGED << postVars, avgVars >>

\* line 56
WriteCsv ==
    /\ pc = "write"
    /\ csv' = << average >>
    /\ pc' = "done"
    /\ UNCHANGED << prog, shape, nframes, boxsize, logfile, frames, num, df, df_out,
                    average, err >>
    /\ UNCHANGED << postVars, avgVars >>

EstNext ==
    \/ Df2Call
    \/ ReadFirstFails
    \/ ComputeBoxsize
    \/ OpenLog
    \/ LogFrame
    \/ ComputeFrame
    \/ ComputeFrameFails
    \/ ReadFrameFails
    \/ ComputeDfOut
    \/ ComputeAverage
    \/ WriteCsv

SpecEst == EstInit /\ [][EstNext]_vars

-----------------------------------------------------------------------------
(***************************************************************************)
(* Properties of the estimator.                                            *)
(***************************************************************************)
L == ShorterSide(shape)

Finished == pc = "done"

BoxsizeSet == {boxsize[j] : j \in 1..Len(boxsize)}

\* the window intensities of size bs in frame t, read off the frame itself
WindowSamples(t, bs) == divide_windows(frames[t], shape, bs, step)

\* the intensities of window w of size bs in the successive frames
TimeSeries(w, bs) == [t \in 1..Len(frames) |-> WindowSamples(t, bs)[w]]

\* the intensities of all windows of size bs of all frames
RECURSIVE PooledFrom(_, _)
PooledFrom(t, bs) ==
    IF t > Len(frames) THEN << >> ELSE WindowSamples(t, bs) \o PooledFrom(t + 1, bs)

WindowsOf(bs) == NumWindows(shape.w, bs, step) * NumWindows(shape.h, bs, step)

\* s^2 * (mean over the windows of the standard deviation over the frames)
TimeVarianceSpatialAverage(bs) ==
    [terms |-> [w \in 1..WindowsOf(bs) |->
                   [coef |-> bs * bs,
                    rad |-> NpStd(TimeSeries(w, bs)).rad,
                    den |-> Len(frames)]],
     den |-> WindowsOf(bs)]

\* s^2 * (standard deviation of the pooled population of the size)
PooledFluctuation(bs) ==
    LET sd == NpStd(PooledFrom(1, bs))
    IN  [coef |-> bs * bs, rad |-> sd.rad, den |-> sd.den]

(* C1: every element of the window-size set lies in
   [size_min, (L - size_min)/2], for every shorter side L for which the
   estimator computes a window-size set. *)
C1_SizesWithinRange ==
    \A s \in BoxsizeSet : size_min <= s /\ 2 * s <= L - size_min

(* C2: whenever size_min exceeds half the shorter dimension the estimator
   fails: it never finishes and produces no fluctuation record. *)
C2_FailsWhenTooSmall ==
    (prog = "df2_nobp" /\ 2 * size_min > L) =>
        (~Finished /\ average = << >> /\ csv = NoFile)

(* C3 as claimed: the record of window size s has n = s^2 and
   d = s^2 * the population standard deviation of the intensities of all
   windows of that size across all frames (one population per size). *)
C3_PooledPopulation ==
    Finished =>
        \A j \in 1..Len(average) :
            \E s \in BoxsizeSet :
                /\ average[j].n = Frac(s * s, 1)
                /\ MeanEqualsSurd(average[j].d, PooledFluctuation(s))

(* C3 as amended: the record of window size s has n = s^2 and
   d = s^2 * the mean, over the window positions of that size, of the
   population standard deviation of that window's intensity over the
   frames (time variance, then spatial average). *)
C3_TimeVarianceSpatialAverage ==
    Finished =>
        \A j \in 1..Len(average) :
            \E s \in BoxsizeSet :
                /\ average[j].n = Frac(s * s, 1)
                /\ average[j].d = TimeVarianceSpatialAverage(s)

\* two frames, two windows per size, and a window whose intensity changes in time
C3_Witness ==
    /\ Finished
    /\ Len(frames) = 2
    /\ NumBlocks(shape) = 2
    /\ frames[1][1] # frames[2][1]
    /\ frames[1][2] = frames[2][2]
    /\ Len(average) >= 2
    /\ ~MeanIsZero(average[1].d)

FracLess(p, q) == p.num * q.den < q.num * p.den

(* C4: the output holds exactly one fluctuation record per element of the
   window-size set, in strictly increasing order of n, for any number of
   frames and of windows per size. *)
C4_OneRecordPerSizeIncreasing ==
    Finished =>
        /\ csv = << average >>
        /\ Len(average) = Len(boxsize)
        /\ \A j \in 1..Len(average) : average[j].n = Frac(boxsize[j] * boxsize[j], 1)
        /\ \A j \in 1..(Len(average) - 1) : FracLess(average[j].n, average[j + 1].n)

C4_Witness ==
    /\ Finished
    /\ Len(frames) = 2
    /\ NumBlocks(shape) = 2
    /\ Len(boxsize) >= 3
    /\ Len(average) = Len(boxsize)

AllPixelsZero ==
    \A t \in 1..Len(frames) : \A b \in 1..NumBlocks(shape) : frames[t][b] = 0

(* C9: if every pixel of every frame is zero, the fluctuation d of every
   output record is 0, for every window size of the set. *)
C9_ZeroImageZeroFluctuation ==
    (Finished /\ AllPixelsZero) =>
        /\ \A j \in 1..Len(average) : MeanIsZero(average[j].d)
        /\ \A s \in BoxsizeSet : \E j \in 1..Len(average) : average[j].n = Frac(s * s, 1)

C9_Witness ==
    /\ Finished
    /\ AllPixelsZero
    /\ Len(frames) >= 1
    /\ Len(average) >= 2
    /\ \A j \in 1..Len(average) : MeanIsZero(average[j].d)

-----------------------------------------------------------------------------
(***************************************************************************)
(* corr_utils.py: postprocess_gnf and the range limits of the helpers.     *)
(* A limit argument (xlim, tlim, fitting_range) is None, an int, a list,   *)
(* or something else (a float here).                                       *)
(***************************************************************************)
MaxSide == 3        \* GNF tables hold box areas n = s^2, s in 1..MaxSide
MaxD == 1           \* fluctuations d of the GNF tables are 0..MaxD
MaxLim == 3         \* limit values are -1..MaxLim
MaxSparse == 2      \* sparse is 1..MaxSparse
MaxSeg == 2         \* kinetics tables hold the segments 1..m, m <= MaxSeg
MaxT == 2           \* intensity and energy tables hold the times 0..m-1, m <= MaxT
MaxR == 2           \* correlation tables hold the distances 0..m-1, m <= MaxR

NoneLim == [kind |-> "none", items |-> << >>]
IntLim(v) == [kind |-> "int", items |-> << v >>]
ListLim(items) == [kind |-> "list", items |-> items]
FloatLim == [kind |-> "float", items |-> << >>]

LimVals == (-1)..MaxLim

Limits ==
    {NoneLim, FloatLim}
        \cup {IntLim(v) : v \in LimVals}
        \cup {ListLim(<< a, b >>) : a \in LimVals, b \in LimVals}
        \cup {ListLim(<< a >>) : a \in 0..1}
        \cup {ListLim(<< 0, a, MaxLim >>) : a \in 0..1}

\* xlim == None
IsNone(lim) == lim.kind = "none"
\* isinstance(xlim, int)
IsInt(lim) == lim.kind = "int"
\* isinstance(xlim, list) and len(xlim) == 2
IsList2(lim) == lim.kind = "list" /\ Len(lim.items) = 2

Recognized(lim) == IsNone(lim) \/ IsInt(lim) \/ IsList2(lim)

\* what a call returns or raises: kind is "ok" or the exception; sel holds
\* the tables as they are after the limit was applied; x and y are the
\* curve returned by postprocess_gnf
Raised(e, sel) == [kind |-> e, sel |-> sel, x |-> << >>, y |-> << >>]
Returned(sel, xs, ys) == [kind |-> "ok", sel |-> sel, x |-> xs, y |-> ys]

\* values of the curves: a fraction, or the doubles nan and inf
Num(fr) == [k |-> "num", num |-> fr.num, den |-> fr.den]
NaN == [k |-> "nan", num |-> 0, den |-> 0]
Inf == [k |-> "inf", num |-> 0, den |-> 0]
One == Num(Frac(1, 1))

\* p / q for p, q >= 0 as doubles divide: 0/0 is nan, p/0 is inf
FloatDiv(p, q) ==
    IF p.k = "nan" \/ q.k = "nan" THEN NaN
    ELSE IF p.k = "inf" THEN (IF q.k = "inf" THEN NaN ELSE Inf)
    ELSE IF q.k = "inf" THEN Num(Frac(0, 1))
    ELSE IF q.num = 0 THEN (IF p.num = 0 THEN NaN ELSE Inf)
    ELSE Num(Frac(p.num * q.den, p.den * q.num))

\* xs[0:len(xs):sparse]
Sparsify(xs, sparse) ==
    IF xs = << >> THEN << >>
    ELSE [i \in 1..((Len(xs) - 1) \div sparse + 1) |-> xs[(i - 1) * sparse + 1]]

\* an integer limit that keeps the limit itself
GnfIntInclusive(gnf_data, lb, xlim) ==
    SelectSeq(gnf_data, LAMBDA r : r.n <= xlim.items[1] * lb * lb)

\* lines 35-38 of postprocess_gnf
GnfInt(gnf_data, lb, xlim) ==
    SelectSeq(gnf_data, LAMBDA r : r.n < xlim.items[1] * lb * lb)

GnfList(gnf_data, lb, xlim) ==
    SelectSeq(gnf_data, LAMBDA r : r.n >= xlim.items[1] * lb * lb
                                    /\ r.n < xlim.items[2] * lb * lb)

\* a rescaling by the last point instead of the first
RescaleByLast(yy) == [i \in 1..Len(yy) |-> FloatDiv(yy[i], yy[Len(yy)])]

\* line 42: yy / yy.iat[0]
Rescale(yy) == [i \in 1..Len(yy) |-> FloatDiv(yy[i], yy[1])]

\* lines 33-48; an xlim of another shape leaves `data` unbound at line 40
postprocess_gnf(gnf_data, lb, xlim, sparse) ==
    IF ~Recognized(xlim) THEN Raised("UnboundLocalError", << >>)
    ELSE LET data == IF IsNone(xlim) THEN gnf_data
                     ELSE IF IsInt(xlim) THEN GnfInt(gnf_data, lb, xlim)
                     ELSE GnfList(gnf_data, lb, xlim)
             xx   == [i \in 1..Len(data) |-> Num(Frac(data[i].n, lb * lb))]
             yy   == [i \in 1..Len(data) |-> Num(Frac(data[i].d, Isqrt(data[i].n)))]
         IN  IF Len(data) = 0 THEN Raised("IndexError", << data >>)
             ELSE Returned(<< data >>, Sparsify(xx, sparse), Sparsify(Rescale(yy), sparse))

\* lines 155-162 of plot_std
StdInt(k_data, seg_length, tlim, fps) ==
    SelectSeq(k_data, LAMBDA r : (r.segment - 1) * seg_length < tlim.items[1] * fps)

StdList(k_data, seg_length, tlim, fps) ==
    SelectSeq(k_data, LAMBDA r : (r.segment - 1) * seg_length < tlim.items[2] * fps
                                  /\ (r.segment - 1) * seg_length >= tlim.items[1] * fps)

plot_std(k_data, seg_length, tlim, fps) ==
    IF IsNone(tlim) THEN Returned(<< k_data >>, << >>, << >>)
    ELSE IF IsInt(tlim) THEN Returned(<< StdInt(k_data, seg_length, tlim, fps) >>, << >>, << >>)
    ELSE IF IsList2(tlim)
         THEN Returned(<< StdList(k_data, seg_length, tlim, fps) >>, << >>, << >>)
    ELSE Raised("ValueError", << >>)

\* lines 211-223 of plot_kinetics: tc = (segment-1)*seg_length/fps < tlim and
\* t/fps < tlim, both sides multiplied by fps (fps > 0)
KineticsInt(k_data, i_data, seg_length, tlim, fps) ==
    << SelectSeq(k_data, LAMBDA r : (r.segment - 1) * seg_length < tlim.items[1] * fps),
       SelectSeq(i_data, LAMBDA r : r.t < tlim.items[1] * fps) >>

KineticsList(k_data, i_data, seg_length, tlim, fps) ==
    << SelectSeq(k_data, LAMBDA r : (r.segment - 1) * seg_length < tlim.items[2] * fps
                                     /\ (r.segment - 1) * seg_length >= tlim.items[1] * fps),
       SelectSeq(i_data, LAMBDA r : r.t < tlim.items[2] * fps
                                     /\ r.t >= tlim.items[1] * fps) >>

plot_kinetics(k_data, i_data, seg_length, tlim, fps) ==
    IF IsNone(tlim) THEN Returned(<< k_data, i_data >>, << >>, << >>)
    ELSE IF IsInt(tlim)
         THEN Returned(KineticsInt(k_data, i_data, seg_length, tlim, fps), << >>, << >>)
    ELSE IF IsList2(tlim)
         THEN IF ~(tlim.items[2] > tlim.items[1]) THEN Raised("AssertionError", << >>)
              ELSE Returned(KineticsList(k_data, i_data, seg_length, tlim, fps), << >>, << >>)
    ELSE Raised("ValueError", << >>)

\* lines 326-340 of plot_kinetics_eo: eo_data.t is in seconds
EoInt(eo_data, tlim) == SelectSeq(eo_data, LAMBDA r : r.t < tlim.items[1])

EoList(eo_data, tlim) ==
    SelectSeq(eo_data, LAMBDA r : r.t < tlim.items[2] /\ r.t >= tlim.items[1])

plot_kinetics_eo(k_data, i_data, eo_data, seg_length, tlim, fps) ==
    IF IsNone(tlim) THEN Returned(<< k_data, i_data, eo_data >>, << >>, << >>)
    ELSE IF IsInt(tlim)
         THEN Returned(KineticsInt(k_data, i_data, seg_length, tlim, fps)
                           \o << EoInt(eo_data, tlim) >>, << >>, << >>)
    ELSE IF IsList2(tlim)
         THEN IF ~(tlim.items[2] > tlim.items[1]) THEN Raised("AssertionError", << >>)
              ELSE Returned(KineticsList(k_data, i_data, seg_length, tlim, fps)
                                \o << EoList(eo_data, tlim) >>, << >>, << >>)
    ELSE Raised("ValueError", << >>)

\* lines 563-570 of corr_length
CorrInt(data, lim) == SelectSeq(data, LAMBDA r : r.R < lim.items[1])

CorrList(data, lim) ==
    SelectSeq(data, LAMBDA r : r.R < lim.items[2] /\ r.R >= lim.items[1])

corr_length(data, fitting_range) ==
    IF IsNone(fitting_range) THEN Returned(<< data >>, << >>, << >>)
    ELSE IF IsInt(fitting_range) THEN Returned(<< CorrInt(data, fitting_range) >>, << >>, << >>)
    ELSE IF IsList2(fitting_range)
         THEN Returned(<< CorrList(data, fitting_range) >>, << >>, << >>)
    ELSE Raised("ValueError", << >>)

\* line 649: data.sort_values(by=[plot_cols[0], 'conc'])
RowBefore(r, q) == r.R < q.R \/ (r.R = q.R /\ r.conc < q.conc)

RECURSIVE SortValues(_)
SortValues(rows) ==
    IF rows = << >> THEN << >>
    ELSE LET i == CHOOSE i \in 1..Len(rows) :
                     \A j \in 1..Len(rows) : ~RowBefore(rows[j], rows[i])
         IN  << rows[i] >> \o SortValues(SubSeq(rows, 1, i - 1) \o SubSeq(rows, i + 1, Len(rows)))

\* lines 649-659 of plot_correlation
plot_correlation(data, xlim) ==
    LET sorted == SortValues(data)
    IN  IF IsNone(xlim) THEN Returned(<< sorted >>, << >>, << >>)
        ELSE IF IsInt(xlim) THEN Returned(<< CorrInt(sorted, xlim) >>, << >>, << >>)
        ELSE IF IsList2(xlim) THEN Returned(<< CorrList(sorted, xlim) >>, << >>, << >>)
        ELSE Raised("ValueError", << >>)

-----------------------------------------------------------------------------
(***************************************************************************)
(* Calls of the corr_utils functions.  The tables handed to them are what  *)
(* the rest of the package produces: GNF tables have one record per box    *)
(* area n = s^2 in increasing order, kinetics tables the segments 1..m,    *)
(* intensity and energy tables the times 0..m-1, correlation tables the    *)
(* distances 0..m-1.                                                       *)
(***************************************************************************)
GnfTables ==
    UNION {{[i \in 1..Len(ss) |-> [n |-> ss[i] * ss[i], d |-> f[i]]] :
                f \in [1..Len(ss) -> 0..MaxD]} :
           ss \in {SortedSeq(S) : S \in SUBSET (1..MaxSide)}}

KTables == {[i \in 1..m |-> [segment |-> i]] : m \in 0..MaxSeg}

TTables == {[i \in 1..m |-> [t |-> i - 1]] : m \in 0..MaxT}

CorrTables == {[i \in 1..m |-> [R |-> i - 1, C |-> 1]] : m \in 0..MaxR}

ConcRows == {[R |-> r, conc |-> c] : r \in 0..(MaxR - 1), c \in 1..2}

ConcTables == UNION {[1..m -> ConcRows] : m \in 0..2}

Lbs == 1..2
Fpss == 1..2
SegLengths == 1..2

PostInit ==
    /\ prog = "corr_utils"
    /\ pc = "idle"
    /\ shape = [h |-> 0, w |-> 0]
    /\ nframes = 0
    /\ boxsize = << >>
    /\ logfile = << >>
    /\ frames = << >>
    /\ num = 0
    /\ df = << >>
    /\ df_out = << >>
    /\ average = << >>
    /\ csv = NoFile
    /\ err = ""
    /\ PostIdle
    /\ AvgIdle

Args(fn, data, lb, seg_length, fps, lim, sparse) ==
    [fn |-> fn, data |-> data, lb |-> lb, seg_length |-> seg_length, fps |-> fps,
     lim |-> lim, sparse |-> sparse]

PostprocessGnfCall ==
    /\ prog = "corr_utils" /\ call = NoCall
    /\ \E gnf_data \in GnfTables, lb \in Lbs, xlim \in Limits, sparse \in 1..MaxSparse :
        /\ call' = Args("postprocess_gnf", << gnf_data >>, lb, 0, 0, xlim, sparse)
        /\ ret' = postprocess_gnf(gnf_data, lb, xlim, sparse)
    /\ UNCHANGED << estVars, avgVars >>

PlotStdCall ==
    /\ prog = "corr_utils" /\ call = NoCall
    /\ \E k_data \in KTables, seg_length \in SegLengths, tlim \in Limits, fps \in Fpss :
        /\ call' = Args("plot_std", << k_data >>, 0, seg_length, fps, tlim, 0)
        /\ ret' = plot_std(k_data, seg_length, tlim, fps)
    /\ UNCHANGED << estVars, avgVars >>

PlotKineticsCall ==
    /\ prog = "corr_utils" /\ call = NoCall
    /\ \E k_data \in KTables, i_data \in TTables, seg_length \in SegLengths,
          tlim \in Limits, fps \in Fpss :
        /\ call' = Args("plot_kinetics", << k_data, i_data >>, 0, seg_length, fps, tlim, 0)
        /\ ret' = plot_kinetics(k_data, i_data, seg_length, tlim, fps)
    /\ UNCHANGED << estVars, avgVars >>

PlotKineticsEoCall ==
    /\ prog = "corr_utils" /\ call = NoCall
    /\ \E k_data \in KTables, i_data \in TTables, eo_data \in TTables,
          seg_length \in SegLengths, tlim \in Limits, fps \in Fpss :
        /\ call' = Args("plot_kinetics_eo", << k_data, i_data, eo_data >>, 0, seg_length,
                        fps, tlim, 0)
        /\ ret' = plot_kinetics_eo(k_data, i_data, eo_data, seg_length, tlim, fps)
    /\ UNCHANGED << estVars, avgVars >>

CorrLengthCall ==
    /\ prog = "corr_utils" /\ call = NoCall
    /\ \E data \in CorrTables, fitting_range \in Limits :
        /\ call' = Args("corr_length", << data >>, 0, 0, 0, fitting_range, 0)
        /\ ret' = corr_length(data, fitting_range)
    /\ UNCHANGED << estVars, avgVars >>

PlotCorrelationCall ==
    /\ prog = "corr_utils" /\ call = NoCall
    /\ \E data \in ConcTables, xlim \in Limits :
        /\ call' = Args("plot_correlation", << data >>, 0, 0, 0, xlim, 0)
        /\ ret' = plot_correlation(data, xlim)
    /\ UNCHANGED << estVars, avgVars >>

PostNext ==
    \/ PostprocessGnfCall
    \/ PlotStdCall
    \/ PlotKineticsCall
    \/ PlotKineticsEoCall
    \/ CorrLengthCall
    \/ PlotCorrelationCall

SpecPost == PostInit /\ [][PostNext]_vars

-----------------------------------------------------------------------------
(***************************************************************************)
(* Properties of postprocess_gnf and of the range limits                   *)
(***************************************************************************)
Called(fn) == call.fn = fn

\* the records of the first table that the limit retained
Kept == ret.sel[1]

\* the called function applied to the same arguments with another limit
Outcome(c, lim) ==
    CASE c.fn = "postprocess_gnf" -> postprocess_gnf(c.data[1], c.lb, lim, c.sparse)
      [] c.fn = "plot_std" -> plot_std(c.data[1], c.seg_length, lim, c.fps)
      [] c.fn = "plot_kinetics" ->
            plot_kinetics(c.data[1], c.data[2], c.seg_length, lim, c.fps)
      [] c.fn = "plot_kinetics_eo" ->
            plot_kinetics_eo(c.data[1], c.data[2], c.data[3], c.seg_length, lim, c.fps)
      [] c.fn = "corr_length" -> corr_length(c.data[1], lim)
      [] c.fn = "plot_correlation" -> plot_correlation(c.data[1], lim)

(* C5: for every table and every accepted lb, xlim and sparse, the first y *)
(* of the curve returned by postprocess_gnf is exactly 1, also when the    *)
(* first retained record has d = 0 and when no record is retained.         *)
C5_FirstYExactlyOne ==
    (Called("postprocess_gnf") /\ Recognized(call.lim))
        => (ret.kind = "ok" /\ ret.y[1] = One)

(* C5 as the code has it: when no record is retained the call raises an    *)
(* IndexError; otherwise it returns, and the first y is exactly 1 when the *)
(* first retained record has d # 0 and is nan when it has d = 0.           *)
C5_FirstYOneWhenFirstDNonzero ==
    (Called("postprocess_gnf") /\ Recognized(call.lim))
        => IF Len(Kept) = 0 THEN ret.kind = "IndexError"
           ELSE /\ ret.kind = "ok"
                /\ ret.y[1] = (IF Kept[1].d # 0 THEN One ELSE NaN)

C5_Witness ==
    /\ Called("postprocess_gnf") /\ IsList2(call.lim)
    /\ ret.kind = "ok"
    /\ Len(Kept) >= 2 /\ Len(Kept) < Len(call.data[1])
    /\ Kept[1].d # 0 /\ Kept[1].n > 1
    /\ ret.y[1] = One

\* the calls whose integer limit v the list [0, v] can stand for: the
\* kinetics functions assert tlim[1] > tlim[0] on a list
ListFormAccepted ==
    Called("plot_kinetics") \/ Called("plot_kinetics_eo") => call.lim.items[1] >= 1

(* C6: in each of the six functions an integer limit v selects the same    *)
(* rows, with the same outcome, as the list [0, v], for every integer v.   *)
C6_IntSameAsListFromZero ==
    (call # NoCall /\ IsInt(call.lim))
        => ret = Outcome(call, ListLim(<< 0, call.lim.items[1] >>))

(* C6 as the code has it: the equivalence holds for every v in             *)
(* postprocess_gnf, plot_std, corr_length and plot_correlation, and for    *)
(* v >= 1 in plot_kinetics and plot_kinetics_eo; there an integer v <= 0   *)
(* returns with nothing selected while [0, v] fails the assertion.         *)
C6_IntSameAsListFromZeroWhenAccepted ==
    (call # NoCall /\ IsInt(call.lim))
        => IF ListFormAccepted
           THEN ret = Outcome(call, ListLim(<< 0, call.lim.items[1] >>))
           ELSE /\ ret.kind = "ok"
                /\ \A i \in 1..Len(ret.sel) : Len(ret.sel[i]) = 0
                /\ Outcome(call, ListLim(<< 0, call.lim.items[1] >>)).kind = "AssertionError"

C6_Witness ==
    /\ Called("plot_kinetics_eo") /\ IsInt(call.lim)
    /\ ret.kind = "ok"
    /\ \A i \in 1..3 : Len(ret.sel[i]) >= 1 /\ Len(ret.sel[i]) < Len(call.data[i])
    /\ ret = Outcome(call, ListLim(<< 0, call.lim.items[1] >>))

(* C7: an xlim or tlim that is neither None, nor an int, nor a list of two *)
(* elements makes each of the six functions raise a ValueError before      *)
(* producing any result.                                                   *)
C7_UnrecognizedRaisesValueError ==
    (call # NoCall /\ ~Recognized(call.lim))
        => (ret.kind = "ValueError" /\ ret.sel = << >>)

(* C10: with xlim = [a, b] postprocess_gnf keeps exactly the records with  *)
(* n / lb^2 inside [a, b]; with an integer xlim it cuts off only the       *)
(* records above xlim.                                                     *)
C10_KeepsClosedRange ==
    Called("postprocess_gnf") =>
        /\ IsList2(call.lim) =>
              Kept = SelectSeq(call.data[1],
                         LAMBDA r : /\ call.lim.items[1] * call.lb * call.lb <= r.n
                                    /\ r.n <= call.lim.items[2] * call.lb * call.lb)
        /\ IsInt(call.lim) =>
              Kept = SelectSeq(call.data[1],
                         LAMBDA r : r.n <= call.lim.items[1] * call.lb * call.lb)

-----------------------------------------------------------------------------
(***************************************************************************)
(* corr_utils.average_data.  The cells of the averaged columns are         *)
(* doubles: a sum or a quotient is the exact result rounded to the nearest *)
(* double, ties to even.  The doubles here have a significand of           *)
(* Precision bits (53 in numpy) and no bound on the exponent; a value is   *)
(* kept as the fraction it equals.                                         *)
(***************************************************************************)
Precision == 3      \* bits of the significand
MaxValue == 7       \* the cells of the files hold 1..MaxValue
MaxFiles == 4       \* largest number of files in the directory

RECURSIVE Pow2(_)
Pow2(e) == IF e = 0 THEN 1 ELSE 2 * Pow2(e - 1)

\* p / q rounded to the nearest integer, ties to the even one
RoundHalfEven(p, q) ==
    LET f  == p \div q
        r2 == 2 * (p - f * q)
    IN  IF r2 < q THEN f
        ELSE IF r2 > q THEN f + 1
        ELSE IF f % 2 = 0 THEN f ELSE f + 1

\* p / q >= 0 rounded to Precision significant bits
RECURSIVE RoundFloat(_, _)
RoundFloat(p, q) ==
    IF p = 0 THEN Frac(0, 1)
    ELSE IF p < Pow2(Precision - 1) * q
         THEN LET r == RoundFloat(2 * p, q) IN Frac(r.num, 2 * r.den)
    ELSE IF p >= Pow2(Precision) * q
         THEN LET r == RoundFloat(p, 2 * q) IN Frac(2 * r.num, r.den)
    ELSE Frac(RoundHalfEven(p, q), 1)

Representable(q) == RoundFloat(q.num, q.den) = q

\* a + b of two doubles
RoundedAdd(a, b) == LET r == FracAdd(a, b) IN RoundFloat(r.num, r.den)

\* a / c of a double and a positive int
RoundedDiv(a, c) == RoundFloat(a.num, a.den * c)

\* the default of the argument `columns`
columns == << "CA", "CV" >>

InSeq(xs, x) == \E i \in 1..Len(xs) : xs[i] = x

\* a table is its column labels in order and the cells of every column
Table(labels, col) == [labels |-> labels, col |-> col]

\* data[labels]
SelectColumns(table, labels) ==
    Table(labels, [c \in {labels[i] : i \in 1..Len(labels)} |-> table.col[c]])

\* a running sum that stays at the first file
AddNothing(a, b) == a

\* temp += data[columns]
AddTables(a, b) ==
    Table(a.labels, [c \in DOMAIN a.col |->
                        [i \in 1..Len(a.col[c]) |-> RoundedAdd(a.col[c][i], b.col[c][i])]])

\* temp / k
DivTable(a, c) ==
    Table(a.labels, [lab \in DOMAIN a.col |->
                        [i \in 1..Len(a.col[lab]) |-> RoundedDiv(a.col[lab][i], c)]])

\* lines 619-622: the labels of data that are not in columns
OtherCols(table) == SelectSeq(table.labels, LAMBDA lab : ~InSeq(columns, lab))

\* pd.concat([a, b], axis=1)
ConcatColumns(a, b) ==
    Table(a.labels \o b.labels,
          [lab \in DOMAIN a.col \cup DOMAIN b.col |->
              IF lab \in DOMAIN a.col THEN a.col[lab] ELSE b.col[lab]])

FileValues == {Frac(x, 1) : x \in {y \in 1..MaxValue : Representable(Frac(y, 1))}}

RowIndex == 1..2

RColumn == [i \in RowIndex |-> Frac(i - 1, 1)]

\* files with the columns R, CA, CV and files that lack CV
FileTables ==
    {Table(<< "R", "CA", "CV" >>, [R |-> RColumn, CA |-> ca, CV |-> cv]) :
        ca \in [RowIndex -> FileValues], cv \in [RowIndex -> FileValues]}
    \cup {Table(<< "R", "CA" >>, [R |-> RColumn, CA |-> ca]) : ca \in [RowIndex -> FileValues]}

\* corrLib.readdata(directory) lists the files; here they are copies of one file
Directories == {[i \in 1..n |-> t] : n \in 0..MaxFiles, t \in FileTables}

AvgInit ==
    /\ prog = "average_data"
    /\ pc = "loop"
    /\ directory \in Directories
    /\ k = 0
    /\ temp = << >>
    /\ filedata = << >>
    /\ averaged = << >>
    /\ num = 0
    /\ shape = [h |-> 0, w |-> 0]
    /\ nframes = 0
    /\ boxsize = << >>
    /\ logfile = << >>
    /\ frames = << >>
    /\ df = << >>
    /\ df_out = << >>
    /\ average = << >>
    /\ csv = NoFile
    /\ err = ""
    /\ PostIdle

HasColumns(table) == \A i \in 1..Len(columns) : InSeq(table.labels, columns[i])

\* lines 607-616: one iteration of the loop over the listing
ReadFile ==
    /\ prog = "average_data" /\ pc = "loop"
    /\ num < Len(directory)
    /\ HasColumns(directory[num + 1])
    /\ filedata' = directory[num + 1]
    /\ temp' = IF k = 0 THEN SelectColumns(filedata', columns)
               ELSE AddTables(temp, SelectColumns(filedata', columns))
    /\ k' = k + 1
    /\ num' = num + 1
    /\ UNCHANGED << prog, pc, shape, nframes, boxsize, logfile, frames, df, df_out,
                    average, csv, err, directory, averaged, postVars >>

\* lines 607-612: a file without one of the columns
ReadFileFails ==
    /\ prog = "average_data" /\ pc = "loop"
    /\ num < Len(directory)
    /\ ~HasColumns(directory[num + 1])
    /\ filedata' = directory[num + 1]
    /\ Fail("IndexError")
    /\ UNCHANGED << prog, shape, nframes, boxsize, logfile, frames, num, df, df_out,
                    average, csv, directory, k, temp, averaged, postVars >>

\* lines 618-627
ConcatAveraged ==
    /\ prog = "average_data" /\ pc = "loop"
    /\ num = Len(directory)
    /\ k > 0
    /\ averaged' = ConcatColumns(DivTable(temp, k),
                                 SelectColumns(filedata, OtherCols(filedata)))
    /\ pc' = "done"
    /\ UNCHANGED << prog, shape, nframes, boxsize, logfile, frames, num, df, df_out,
                    average, csv, err, directory, k, temp, filedata, postVars >>

\* line 620 with an empty listing: `data` was never bound
ConcatFails ==
    /\ prog = "average_data" /\ pc = "loop"
    /\ num = Len(directory)
    /\ k = 0
    /\ Fail("UnboundLocalError")
    /\ UNCHANGED << prog, shape, nframes, boxsize, logfile, frames, num, df, df_out,
                    average, csv, avgVars, postVars >>

AvgNext ==
    \/ ReadFile
    \/ ReadFileFails
    \/ ConcatAveraged
    \/ ConcatFails

SpecAvg == AvgInit /\ [][AvgNext]_vars

-----------------------------------------------------------------------------
(***************************************************************************)
(* Properties of average_data                                              *)
(***************************************************************************)
Averaged == prog = "average_data" /\ pc = "done"

\* cell i of column lab of the file every file of the directory is a copy of
FileCell(lab, i) == directory[1].col[lab][i]

\* the sums x, 2x, ..., k*x of the running sum are doubles
PartialSumsExact(x) == \A j \in 1..k : Representable(Frac(j * x.num, x.den))

OtherColumnsKept ==
    \A j \in 1..Len(OtherCols(directory[1])) :
        averaged.col[OtherCols(directory[1])[j]] = directory[1].col[OtherCols(directory[1])[j]]

(* C8: over a directory of k >= 1 identical files average_data returns, in *)
(* the averaged columns, the values of the file, and the other columns as  *)
(* they are in the file.                                                   *)
C8_AverageOfCopiesEqualsFile ==
    Averaged =>
        /\ \A j \in 1..Len(columns) : averaged.col[columns[j]] = directory[1].col[columns[j]]
        /\ OtherColumnsKept

(* C8 as the code has it: the other columns are those of the file, and an  *)
(* averaged cell equals the file's cell when every partial sum x, 2x, ..,  *)
(* k*x is exactly a double (always so for k <= 2); otherwise it is the     *)
(* rounded running sum divided by k, which can differ from the cell.       *)
C8_EqualWhenPartialSumsExact ==
    Averaged =>
        /\ OtherColumnsKept
        /\ \A j \in 1..Len(columns), i \in RowIndex :
              PartialSumsExact(FileCell(columns[j], i))
                  => averaged.col[columns[j]][i] = FileCell(columns[j], i)
        /\ k <= 2 => \A j \in 1..Len(columns), i \in RowIndex :
                         PartialSumsExact(FileCell(columns[j], i))

C8_Witness ==
    /\ Averaged /\ k = 3
    /\ FileCell("CA", 1).num = 2 /\ PartialSumsExact(FileCell("CA", 1))
    /\ averaged.col["CA"][1] = FileCell("CA", 1)
    /\ averaged.col["CV"][2] # FileCell("CV", 2)
    /\ averaged.col["R"] = directory[1].col["R"]

-----------------------------------------------------------------------------
(***************************************************************************)
(* div2.py.  The script reads one image and the listing of the PIV files,  *)
(* and for every PIV file computes a divergence field, writes it to a CSV  *)
(* file of its own and then appends the file's line to log.txt.  nframes   *)
(* is the length of the listing and num the position of the loop in it.    *)
(***************************************************************************)
Div2Init ==
    /\ prog = "div2"
    /\ pc = "div_open_log"
    /\ nframes \in 0..MaxFrames
    /\ logfile \in {<< >>, << LogLine("calculated", 1) >>}
    /\ shape = [h |-> 0, w |-> 0]
    /\ boxsize = << >>
    /\ frames = << >>
    /\ num = 0
    /\ df = << >>
    /\ df_out = << >>
    /\ average = << >>
    /\ csv = NoFile
    /\ err = ""
    /\ PostIdle
    /\ AvgIdle

\* lines 24-27: log.txt is opened with 'w', which empties it
Div2OpenLog ==
    /\ prog = "div2" /\ pc = "div_open_log"
    /\ logfile' = << >>
    /\ pc' = "div_read"
    /\ UNCHANGED << prog, shape, nframes, boxsize, frames, num, df, df_out, average,
                    csv, err >>
    /\ UNCHANGED << postVars, avgVars >>

\* lines 29-32: the listing and the image are read, the loop starts
Div2ReadImage ==
    /\ prog = "div2" /\ pc = "div_read"
    /\ num' = 1
    /\ pc' = IF nframes >= 1 THEN "div_compute" ELSE "done"
    /\ UNCHANGED << prog, shape, nframes, boxsize, logfile, frames, df, df_out, average,
                    csv, err >>
    /\ UNCHANGED << postVars, avgVars >>

\* line 31: io.imread raises for an image it cannot read
Div2ReadImageFails ==
    /\ prog = "div2" /\ pc = "div_read"
    /\ Fail("OSError")
    /\ UNCHANGED << prog, shape, nframes, boxsize, logfile, frames, num, df, df_out,
                    average, csv >>
    /\ UNCHANGED << postVars, avgVars >>

\* lines 33-39: the PIV file is read and the fields are computed
Div2Compute ==
    /\ prog = "div2" /\ pc = "div_compute"
    /\ pc' = "div_to_csv"
    /\ UNCHANGED << prog, shape, nframes, boxsize, logfile, frames, num, df, df_out,
                    average, csv, err >>
    /\ UNCHANGED << postVars, avgVars >>

\* lines 33-39: pd.read_csv or corrLib.div_field raises
Div2ComputeFails ==
    /\ prog = "div2" /\ pc = "div_compute"
    /\ Fail("ValueError")
    /\ UNCHANGED << prog, shape, nframes, boxsize, logfile, frames, num, df, df_out,
                    average, csv >>
    /\ UNCHANGED << postVars, avgVars >>

\* line 40: data.to_csv(i.Name + '.csv')
Div2ToCsv ==
    /\ prog = "div2" /\ pc = "div_to_csv"
    /\ csv' = Append(csv, [name |-> num])
    /\ pc' = "div_log"
    /\ UNCHANGED << prog, shape, nframes, boxsize, logfile, frames, num, df, df_out,
                    average, err >>
    /\ UNCHANGED << postVars, avgVars >>

\* lines 41-42, and line 32 for the next file of the listing
Div2LogFrame ==
    /\ prog = "div2" /\ pc = "div_log"
    /\ logfile' = Append(logfile, LogLine("calculated", num))
    /\ num' = num + 1
    /\ pc' = IF num < nframes THEN "div_compute" ELSE "done"
    /\ UNCHANGED << prog, shape, nframes, boxsize, frames, df, df_out, average, csv, err >>
    /\ UNCHANGED << postVars, avgVars >>

Div2Next ==
    \/ Div2OpenLog
    \/ Div2ReadImage
    \/ Div2ReadImageFails
    \/ Div2Compute
    \/ Div2ComputeFails
    \/ Div2ToCsv
    \/ Div2LogFrame

\* the two scripts and corr_utils.df2
ScriptInit == EstInit \/ Div2Init

ScriptNext == EstNext \/ Div2Next

SpecScripts == ScriptInit /\ [][ScriptNext]_vars

-----------------------------------------------------------------------------
(***************************************************************************)
(* Properties of the two scripts                                           *)
(***************************************************************************)
Aborted == pc = "error"

\* the per-file CSVs of div2.py for the first m files of the listing
Div2Files(m) == [i \in 1..m |-> [name |-> i]]

(* C11: in both scripts a failure while processing a frame aborts the run: *)
(* no later frame is processed, nothing is retried, and no result file is  *)
(* produced from a partial run.                                            *)
C11_AbortLeavesNoResult ==
    Aborted => csv = NoFile

(* C11 as the code has it: an exception is never swallowed and nothing     *)
(* happens after it; df2_nobp.py writes df_average.csv only after every    *)
(* frame was processed; div2.py has written, at an abort, the CSV files of *)
(* exactly the PIV files that precede the failing one.                     *)
C11_AbortKeepsFinishedFramesOnly ==
    /\ [](/\ Aborted <=> err # ""
          /\ prog = "df2_nobp" =>
                /\ Aborted => (csv = NoFile /\ average = << >> /\ df_out = << >>)
                /\ csv # NoFile => (Len(frames) = nframes /\ pc = "done")
          /\ prog = "div2" =>
                /\ csv = Div2Files(Len(csv))
                /\ Aborted => Len(csv) = (IF num = 0 THEN 0 ELSE num - 1)
                /\ pc = "done" => Len(csv) = nframes)
    /\ [][Aborted => UNCHANGED vars]_vars

C11_Witness ==
    /\ prog = "div2" /\ Aborted
    /\ Len(csv) >= 1 /\ Len(csv) < nframes

\* the frames that log.txt says were calculated, in the order of the lines
LoggedFrames ==
    LET lines == SelectSeq(logfile, LAMBDA ln : ln.kind = "calculated")
    IN  [j \in 1..Len(lines) |-> lines[j].val]

\* the number of frames whose computation (in div2.py: CSV output) is complete
Processed == IF prog = "div2" THEN Len(csv) ELSE Len(frames)

LogOpened == pc \notin {"start", "open_log", "div_open_log"}

(* C13: the log is truncated at start and then receives one 'calculated'   *)
(* line per frame, in input order, each appended only after the frame's    *)
(* computation (in div2.py also its CSV output) has completed; when the    *)
(* run has ended, also by an abort, the logged frames are exactly the      *)
(* frames processed.                                                       *)
C13_LoggedFramesAreProcessed ==
    LogOpened =>
        /\ LoggedFrames = [j \in 1..Len(LoggedFrames) |-> j]
        /\ Len(LoggedFrames) <= Processed
        /\ (Aborted \/ pc = "done") => Len(LoggedFrames) = Processed

-----------------------------------------------------------------------------
(***************************************************************************)
(* corr_utils.kinetics_from_light_on.  data is the dict returned by        *)
(* plot_kinetics: t0 and alpha are lists of equal length, t1 and i are     *)
(* series of equal length; the times increase.  Intensities are integers   *)
(* here, so the midpoint test i > (max + min) / 2 is 2 * i > max + min.    *)
(***************************************************************************)
MaxTime == 2        \* the times of t0 and t1 are 0..MaxTime
MaxI == 3           \* the intensities are 0..MaxI

SeqMax(xs) == CHOOSE v \in {xs[j] : j \in 1..Len(xs)} : \A j \in 1..Len(xs) : xs[j] <= v

SeqMin(xs) == CHOOSE v \in {xs[j] : j \in 1..Len(xs)} : \A j \in 1..Len(xs) : xs[j] >= v

\* lines 275-276: i > i_thres
AboveThreshold(i, j) == 2 * i[j] > SeqMax(i) + SeqMin(i)

\* line 276: idxmax gives the first sample that is above the threshold
LightOnInd(i) ==
    CHOOSE j \in 1..Len(i) :
        /\ AboveThreshold(i, j)
        /\ \A m \in 1..(j - 1) : ~AboveThreshold(i, m)

\* no sample is above the threshold: the series is empty or constant
NoLightOn(i) == \A j \in 1..Len(i) : ~AboveThreshold(i, j)

\* np.array(xs)[ts >= light_on_time]
FromLightOn(xs, ts, light_on_time) ==
    LET keep == SelectSeq([j \in 1..Len(ts) |-> j], LAMBDA j : ts[j] >= light_on_time)
    IN  [m \in 1..Len(keep) |-> xs[keep[m]]]

\* the times as they were
Untranslated(xs, light_on_time) == xs

\* xs - light_on_time
Translate(xs, light_on_time) == [j \in 1..Len(xs) |-> xs[j] - light_on_time]

\* lines 274-289, for data with a light-on sample
kinetics_from_light_on(data) ==
    LET light_on_ind  == LightOnInd(data.i)
        light_on_time == data.t1[light_on_ind]
    IN  [t0    |-> Translate(FromLightOn(data.t0, data.t0, light_on_time), light_on_time),
         alpha |-> FromLightOn(data.alpha, data.t0, light_on_time),
         t1    |-> Translate(FromLightOn(data.t1, data.t1, light_on_time), light_on_time),
         i     |-> FromLightOn(data.i, data.t1, light_on_time)]

\* increasing sequences of times
TimeAxes == {SortedSeq(S) : S \in SUBSET (0..MaxTime)}

\* the dicts plot_kinetics returns; alpha[j] tells the entries apart
KineticsDicts ==
    UNION {{[t0 |-> t0, alpha |-> [j \in 1..Len(t0) |-> 10 + j], t1 |-> t1, i |-> i] :
                i \in [1..Len(t1) -> 0..MaxI]} :
           t0 \in TimeAxes, t1 \in TimeAxes}

KineticsFromLightOnCall ==
    /\ prog = "corr_utils" /\ call = NoCall
    /\ \E data \in KineticsDicts :
        /\ ~NoLightOn(data.i)
        /\ call' = Args("kinetics_from_light_on", << data >>, 0, 0, 0, NoneLim, 0)
        /\ ret' = Returned(<< kinetics_from_light_on(data) >>, << >>, << >>)
    /\ UNCHANGED << estVars, avgVars >>

\* line 276-277 without a light-on sample: idxmax of an all-NaN series gives
\* nan and the lookup fails, or idxmax itself raises, with the pandas version
KineticsFromLightOnFails ==
    /\ prog = "corr_utils" /\ call = NoCall
    /\ \E data \in KineticsDicts, e \in {"KeyError", "ValueError"} :
        /\ NoLightOn(data.i)
        /\ call' = Args("kinetics_from_light_on", << data >>, 0, 0, 0, NoneLim, 0)
        /\ ret' = Raised(e, << >>)
    /\ UNCHANGED << estVars, avgVars >>

KineticsNext ==
    \/ KineticsFromLightOnCall
    \/ KineticsFromLightOnFails

SpecKinetics == PostInit /\ [][KineticsNext]_vars

-----------------------------------------------------------------------------
(***************************************************************************)
(* Properties of kinetics_from_light_on                                    *)
(***************************************************************************)
LightOnReturned == Called("kinetics_from_light_on") /\ ret.kind = "ok"

OldData == call.data[1]

NewData == ret.sel[1]

\* position in t1 and i of the first sample whose intensity exceeds the
\* midpoint of the minimum and the maximum intensity
FirstBright ==
    CHOOSE j \in 1..Len(OldData.i) :
        /\ 2 * OldData.i[j] > SeqMax(OldData.i) + SeqMin(OldData.i)
        /\ \A m \in 1..(j - 1) : 2 * OldData.i[m] <= SeqMax(OldData.i) + SeqMin(OldData.i)

LightOnTime == OldData.t1[FirstBright]

\* the positions of t0 that are not before light-on, in order
LitSegments ==
    SelectSeq([j \in 1..Len(OldData.t0) |-> j], LAMBDA j : OldData.t0[j] >= LightOnTime)

(* C15: light-on is the t1 of the first sample whose intensity exceeds the *)
(* midpoint of the minimum and maximum intensity; every returned t0 and t1 *)
(* is >= 0, with that sample at t1 = 0; only samples before light-on are   *)
(* dropped; t0/alpha and t1/i keep equal lengths and their pairing; for    *)
(* every input whose intensity is not constant.                            *)
C15_TimeZeroAtLightOn ==
    LightOnReturned =>
        /\ \A j \in 1..Len(NewData.t0) : NewData.t0[j] >= 0
        /\ \A j \in 1..Len(NewData.t1) : NewData.t1[j] >= 0
        /\ NewData.t1[1] = 0 /\ NewData.i[1] = OldData.i[FirstBright]
        /\ Len(NewData.t1) = Len(OldData.t1) - FirstBright + 1
        /\ Len(NewData.i) = Len(NewData.t1)
        /\ \A j \in 1..Len(NewData.t1) :
              /\ NewData.t1[j] = OldData.t1[FirstBright + j - 1] - LightOnTime
              /\ NewData.i[j] = OldData.i[FirstBright + j - 1]
        /\ Len(NewData.t0) = Len(LitSegments)
        /\ Len(NewData.alpha) = Len(NewData.t0)
        /\ \A j \in 1..Len(NewData.t0) :
              /\ NewData.t0[j] = OldData.t0[LitSegments[j]] - LightOnTime
              /\ NewData.alpha[j] = OldData.alpha[LitSegments[j]]

\* light goes on at the second sample, which is not the brightest, and one
\* segment is dropped
C15_Witness ==
    /\ LightOnReturned
    /\ FirstBright = 2
    /\ OldData.i[2] < SeqMax(OldData.i)
    /\ LightOnTime > 0
    /\ Len(NewData.t0) >= 1 /\ Len(NewData.t0) < Len(OldData.t0)

-----------------------------------------------------------------------------
(***************************************************************************)
(* corr_utils.plot_std, the choice and the plotting of the curves.  The    *)
(* products num_total / num_curves * k of line 170 are doubles; their      *)
(* floor is that of the exact product for every num_curves <= 13.          *)
(***************************************************************************)
MaxSegId == 8       \* the segment ids of the kinetics tables are in 1..MaxSegId
MaxCurves == 8      \* num_curves is 1..MaxCurves

SymbolCount == 7    \* len(symbol_list)

\* kinetics tables (n, d, segment): two box sizes for each segment of S
StdTable(S) ==
    LET segs == SortedSeq(S)
    IN  [j \in 1..(2 * Len(segs)) |->
            [n |-> IF j % 2 = 1 THEN 1 ELSE 4, d |-> 1, segment |-> segs[(j + 1) \div 2]]]

StdTables == {StdTable(S) : S \in SUBSET (1..MaxSegId)}

StdLimits == {NoneLim, IntLim(2), ListLim(<< 1, 4 >>), FloatLim}

\* data.segment.drop_duplicates()
Segments(data) == DropDuplicates(Column(data, "segment"))

\* lines 166-170
SegList(data, num_curves) ==
    LET num_total == Len(Segments(data))
    IN  IF num_total < num_curves THEN Segments(data)
        ELSE [j \in 1..num_curves |->
                 (num_total * (j - 1)) \div num_curves + SeqMin(Segments(data))]

\* lines 175-176 for the curve at position j of seg_list
Curve(data, seg_list, j) ==
    postprocess_gnf(SelectSeq(data, LAMBDA r : r.segment = seg_list[j]), 10, NoneLim, 3)

\* lines 174-179: the curves are made in the order of seg_list; the first
\* that cannot be made, or that has no marker in symbol_list, ends the loop
CurveFails(data, seg_list, j) ==
    Curve(data, seg_list, j).kind # "ok" \/ j > SymbolCount

\* lines 155-187: the filtered data, seg_list and plot_data
plot_std_curves(k_data, seg_length, tlim, fps, num_curves) ==
    LET filtered == plot_std(k_data, seg_length, tlim, fps)
        data     == filtered.sel[1]
        seg_list == SegList(data, num_curves)
    IN  IF filtered.kind # "ok" THEN filtered
        ELSE IF \E j \in 1..Len(seg_list) : CurveFails(data, seg_list, j)
             THEN Raised("IndexError", << >>)
        ELSE Returned(<< data, seg_list,
                         [j \in 1..Len(seg_list) |->
                             [key |-> j - 1,
                              x |-> Curve(data, seg_list, j).x,
                              y |-> Curve(data, seg_list, j).y]] >>,
                      << >>, << >>)

PlotStdCurvesCall ==
    /\ prog = "corr_utils" /\ call = NoCall
    /\ \E k_data \in StdTables, tlim \in StdLimits, num_curves \in 1..MaxCurves :
        /\ call' = [fn |-> "plot_std", data |-> << k_data >>, lb |-> 10, seg_length |-> 1,
                    fps |-> 1, lim |-> tlim, sparse |-> 3, num_curves |-> num_curves]
        /\ ret' = plot_std_curves(k_data, 1, tlim, 1, num_curves)
    /\ UNCHANGED << estVars, avgVars >>

StdNext == PlotStdCurvesCall

SpecStd == PostInit /\ [][StdNext]_vars

-----------------------------------------------------------------------------
(***************************************************************************)
(* Properties of plot_std                                                  *)
(***************************************************************************)
\* the segment ids of the tlim-filtered data
FilteredSegments ==
    LET data == plot_std(call.data[1], call.seg_length, call.lim, call.fps).sel[1]
    IN  {data[j].segment : j \in 1..Len(data)}

(* C14: for every kinetics table and every num_curves >= 1 plot_std        *)
(* selects at most num_curves distinct segment ids, each present in the    *)
(* tlim-filtered data, and returns plot_data with exactly one (x, y) entry *)
(* per selected segment; with fewer than num_curves distinct segments all  *)
(* of them are selected.                                                   *)
C14_CurvesAreSegmentsOfTheData ==
    (Called("plot_std") /\ Recognized(call.lim)) =>
        /\ ret.kind = "ok"
        /\ Len(ret.sel[2]) <= call.num_curves
        /\ \A j \in 1..Len(ret.sel[2]) : ret.sel[2][j] \in FilteredSegments
        /\ \A j \in 1..Len(ret.sel[2]) : \A m \in 1..Len(ret.sel[2]) :
              ret.sel[2][j] = ret.sel[2][m] => j = m
        /\ Len(ret.sel[3]) = Len(ret.sel[2])
        /\ Cardinality(FilteredSegments) < call.num_curves
              => {ret.sel[2][j] : j \in 1..Len(ret.sel[2])} = FilteredSegments

-----------------------------------------------------------------------------
(***************************************************************************)
(* The objects of the post-processing functions of corr_utils.py.  A heap  *)
(* is a sequence of objects and an object's identity is its position; an   *)
(* object has a Python type, the objects it refers to under their keys,    *)
(* and the operation that made its content.  A DataFrame or a Series       *)
(* refers under "values" to the ndarray that stores its data; a slice of a *)
(* Series is a new Series on the same ndarray.  None is the identity 0.    *)
(* The functions return (result, fig, ax) or the result alone; the figure  *)
(* and axes are made by matplotlib and hold none of the arguments' objects.*)
(***************************************************************************)
MaxArr == 2     \* the arrays, tables and tuples have 1..MaxArr elements

Obj(type, refs, op, args) ==
    [type |-> type, refs |-> refs, val |-> [op |-> op, args |-> args]]

Ref(key, id) == [key |-> key, id |-> id]

MutableTypes == {"list", "ndarray", "Series", "DataFrame", "dict"}

Keys(h, id) == [j \in 1..Len(h[id].refs) |-> h[id].refs[j].key]

\* h[id][key]
At(h, id, key) ==
    (CHOOSE r \in {h[id].refs[j] : j \in 1..Len(h[id].refs)} : r.key = key).id

\* len(h[id]) of an argument
LenOf(h, id) == h[id].val.args[1]

\* the objects that can be reached from the objects of ids
RECURSIVE Reach(_, _)
Reach(h, ids) ==
    LET more == ids \cup UNION {{h[id].refs[j].id : j \in 1..Len(h[id].refs)} : id \in ids}
    IN  IF more = ids THEN ids ELSE Reach(h, more)

Done(h, out) == [kind |-> "ok", heap |-> h, out |-> out, written |-> FALSE]
Threw(e, h) == [kind |-> e, heap |-> h, out |-> 0, written |-> FALSE]

\* a new Series or DataFrame with its own ndarray; it is the last object
NewTable(h, type, op, args) ==
    h \o << Obj("ndarray", << >>, op, args),
            Obj(type, << Ref("values", Len(h) + 1) >>, op, args) >>

\* series[a:b:c], a new Series on the ndarray of series; it is the last object
Slice(h, series) ==
    Append(h, Obj("Series", << Ref("values", At(h, series, "values")) >>, "slice", << series >>))

\* lines 33-48; xlim is 0 (None) or the identity of an int, a list or a float
postprocess_gnf_objects(h, gnf_data, xlim) ==
    LET h1   == IF xlim = 0 THEN h ELSE NewTable(h, "DataFrame", "loc", << gnf_data, xlim >>)
        data == IF xlim = 0 THEN gnf_data ELSE Len(h1)
        h2   == NewTable(h1, "Series", "truediv", << data >>)
        xx   == Len(h2)
        h3   == NewTable(h2, "Series", "truediv", << data >>)
        h4   == NewTable(h3, "Series", "truediv", << Len(h3) >>)
        yy   == Len(h4)
        h5   == Slice(h4, xx)
        h6   == Slice(h5, yy)
    IN  IF xlim # 0 /\ h[xlim].type = "float" THEN Threw("UnboundLocalError", h)
        ELSE Done(Append(h6, Obj("tuple", << Ref("0", Len(h5)), Ref("1", Len(h6)) >>,
                                 "tuple", << >>)),
                  Len(h6) + 1)

\* lines 68-74: the pass for gnf_data_tuple[j]; merged is data_merge, 0 before
\* the first pass
RECURSIVE CollapseLoop(_, _, _, _, _)
CollapseLoop(h, gnf_data_tuple, xlim, j, merged) ==
    LET xy   == postprocess_gnf_objects(h, At(h, gnf_data_tuple, Keys(h, gnf_data_tuple)[j]), xlim)
        h1   == NewTable(xy.heap, "DataFrame", "set_index", << xy.out >>)
        data == Len(h1)
        h2   == IF merged = 0 THEN h1 ELSE NewTable(h1, "DataFrame", "join", << merged, data >>)
    IN  IF j > Len(h[gnf_data_tuple].refs) THEN Done(h, merged)
        ELSE IF xy.kind # "ok" THEN xy
        ELSE CollapseLoop(h2, gnf_data_tuple, xlim, j + 1, Len(h2))

\* lines 67-82
collapse_data_objects(h, gnf_data_tuple, xlim) ==
    LET merged == CollapseLoop(h, gnf_data_tuple, xlim, 1, 0)
        h1     == Append(merged.heap, Obj("Index", << >>, "index", << merged.out >>))
        h2     == NewTable(h1, "Series", "mean", << merged.out >>)
        h3     == NewTable(h2, "Series", "std", << merged.out >>)
        h4     == NewTable(h3, "DataFrame", "set_index", << Len(h1), Len(h2), Len(h3) >>)
    IN  IF merged.kind # "ok" THEN merged ELSE Done(h4, Len(h4))

\* a change of h[id] in place (list.append, +=) that takes in v
InPlace(h, id, v) == [h EXCEPT ![id].val.args = Append(@, v)]

\* lines 227-234: the pass for segment idx of the nseg segments of k_data;
\* t and power are the lists of lines 207-208
RECURSIVE KineticsLoop(_, _, _, _, _, _, _)
KineticsLoop(h, k_data, xlim, t, power, idx, nseg) ==
    LET h1 == NewTable(h, "DataFrame", "loc", << k_data, idx >>)
        xy == postprocess_gnf_objects(h1, Len(h1), xlim)
        h2 == NewTable(xy.heap, "Series", "log", << At(xy.heap, xy.out, "0") >>)
        h3 == NewTable(h2, "Series", "log", << At(xy.heap, xy.out, "1") >>)
        h4 == Append(h3, Obj("ndarray", << >>, "polyfit", << Len(h2), Len(h3) >>))
    IN  IF idx > nseg THEN Done(h, 0)
        ELSE IF xy.kind # "ok" THEN xy
        ELSE KineticsLoop(InPlace(InPlace(h4, t, idx), power, Len(h4)),
                          k_data, xlim, t, power, idx + 1, nseg)

\* lines 207-262; the result is the dict data
plot_kinetics_objects(h, k_data, i_data, tlim, xlim) ==
    LET h0     == h \o << Obj("list", << >>, "list", << >>), Obj("list", << >>, "list", << >>) >>
        t      == Len(h) + 1
        power  == Len(h) + 2
        h1     == IF tlim = 0 THEN h0 ELSE NewTable(h0, "DataFrame", "loc", << k_data, tlim >>)
        k_kept == IF tlim = 0 THEN k_data ELSE Len(h1)
        h2     == IF tlim = 0 THEN h1 ELSE NewTable(h1, "DataFrame", "loc", << i_data, tlim >>)
        i_kept == IF tlim = 0 THEN i_data ELSE Len(h2)
        loop   == KineticsLoop(h2, k_kept, xlim, t, power, 1, LenOf(h, k_data))
        h3     == NewTable(loop.heap, "Series", "truediv", << i_kept >>)
        h4     == NewTable(h3, "Series", "sub", << i_kept >>)
        h5     == NewTable(h4, "Series", "truediv", << Len(h4) >>)
    IN  IF tlim # 0 /\ h[tlim].type = "float" THEN Threw("ValueError", h0)
        ELSE IF loop.kind # "ok" THEN loop
        ELSE Done(Append(h5, Obj("dict", << Ref("t0", t), Ref("alpha", power),
                                            Ref("t1", Len(h3)), Ref("i", Len(h5)) >>,
                                 "dict", << >>)),
                  Len(h5) + 1)

\* lines 280-289: new_data[kw] for the key at position j of data
RECURSIVE FromLightOnLoop(_, _, _, _)
FromLightOnLoop(h, data, j, new_refs) ==
    LET kw == Keys(h, data)[j]
        op == IF kw \in {"t0", "t1"} THEN "mask_sub" ELSE "mask"
        by == IF kw \in {"t0", "alpha"} THEN At(h, data, "t0") ELSE At(h, data, "t1")
    IN  IF j > Len(h[data].refs) THEN Done(h, new_refs)
        ELSE FromLightOnLoop(Append(h, Obj("ndarray", << >>, op, << At(h, data, kw), by >>)),
                             data, j + 1, Append(new_refs, Ref(kw, Len(h) + 1)))

\* lines 274-299; the result is the dict new_data
kinetics_from_light_on_objects(h, data) ==
    LET loop == FromLightOnLoop(h, data, 1, << >>)
    IN  IF {"i", "t1", "t0", "alpha"} \subseteq {Keys(h, data)[j] : j \in 1..Len(h[data].refs)}
        THEN Done(Append(loop.heap, Obj("dict", loop.out, "dict", << >>)), Len(loop.heap) + 1)
        ELSE Threw("KeyError", h)

\* kw.startswith('t')
StartsWithT(kw) == kw \in {"t0", "t1", "t2"}

\* a pass of the loop that makes an array of its own for every key
SmoothKeyCopied(h, data, kw) ==
    [heap |-> Append(h, Obj("ndarray", << >>, "gaussian_filter1d",
                            << At(h, data, kw), LenOf(h, At(h, data, kw)) \div 15 + 1 >>)),
     id   |-> Len(h) + 1]

\* lines 476-481: the heap after the pass for kw, and the object of new_data[kw]
SmoothKey(h, data, kw) ==
    IF ~StartsWithT(kw)
    THEN [heap |-> Append(h, Obj("ndarray", << >>, "gaussian_filter1d",
                                 << At(h, data, kw), LenOf(h, At(h, data, kw)) \div 15 + 1 >>)),
          id   |-> Len(h) + 1]
    ELSE [heap |-> h, id |-> At(h, data, kw)]

RECURSIVE SmoothLoop(_, _, _, _)
SmoothLoop(h, data, j, new_refs) ==
    LET kw   == Keys(h, data)[j]
        pass == SmoothKey(h, data, kw)
    IN  IF j > Len(h[data].refs) THEN Done(h, new_refs)
        ELSE SmoothLoop(pass.heap, data, j + 1, Append(new_refs, Ref(kw, pass.id)))

\* lines 473-509; the result is the dict new_data, and the plots of lines
\* 484-503 read its keys t0, alpha, t2, E and OP
kinetics_eo_smooth_objects(h, data) ==
    LET loop == SmoothLoop(h, data, 1, << >>)
    IN  IF {"t0", "alpha", "t2", "E", "OP"} \subseteq {Keys(h, data)[j] : j \in 1..Len(h[data].refs)}
        THEN Done(Append(loop.heap, Obj("dict", loop.out, "dict", << >>)), Len(loop.heap) + 1)
        ELSE Threw("KeyError", loop.heap)

\* lines 563-574; the result is the tuple (cl, fit)
corr_length_objects(h, data, fitting_range) ==
    LET h1   == IF fitting_range = 0 THEN h
                ELSE NewTable(h, "DataFrame", "loc", << data, fitting_range >>)
        kept == IF fitting_range = 0 THEN data ELSE Len(h1)
        h2   == h1 \o << Obj("ndarray", << >>, "curve_fit", << kept >>),
                         Obj("ndarray", << >>, "curve_fit", << kept >>) >>
        h3   == h2 \o << Obj("tuple", << Ref("0", Len(h1) + 1), Ref("1", Len(h1) + 2) >>,
                             "tuple", << >>),
                         Obj("float", << >>, "truediv", << Len(h1) + 1 >>) >>
    IN  IF fitting_range # 0 /\ h[fitting_range].type = "float" THEN Threw("ValueError", h)
        ELSE Done(Append(h3, Obj("tuple", << Ref("0", Len(h3)), Ref("1", Len(h3) - 1) >>,
                                 "tuple", << >>)),
                  Len(h3) + 1)

\* lines 588-591
xy_to_r_objects(h, corr_xy) ==
    LET h1 == NewTable(h, "Series", "pow", << corr_xy >>)
        h2 == NewTable(h1, "DataFrame", "assign", << corr_xy, Len(h1) >>)
    IN  Done(h2, Len(h2))

\* lines 607-617: the pass for the file at position j of the nfiles files;
\* acc is temp, 0 before the first pass
RECURSIVE AverageLoop(_, _, _, _, _)
AverageLoop(h, labels, j, nfiles, acc) ==
    LET h1 == NewTable(h, "DataFrame", "read_csv", << j >>)
        h2 == NewTable(h1, "DataFrame", "getitem", << Len(h1), labels >>)
    IN  IF j > nfiles THEN Done(h, << acc, IF nfiles = 0 THEN 0 ELSE Len(h) - 2 >>)
        ELSE AverageLoop(IF acc = 0 THEN h2 ELSE InPlace(h2, acc, Len(h2)),
                         labels, j + 1, nfiles, IF acc = 0 THEN Len(h2) ELSE acc)

\* lines 604-627; labels is the list columns
average_data_objects(h, labels, nfiles) ==
    LET loop == AverageLoop(h, labels, 1, nfiles, 0)
        h1   == Append(loop.heap, Obj("list", << >>, "list", << >>))
        h2   == NewTable(h1, "DataFrame", "truediv", << loop.out[1] >>)
        h3   == NewTable(h2, "DataFrame", "getitem", << loop.out[2], Len(h1) >>)
        h4   == NewTable(h3, "DataFrame", "concat", << Len(h2), Len(h3) >>)
    IN  IF nfiles = 0 THEN Threw("UnboundLocalError", loop.heap) ELSE Done(h4, Len(h4))

\* the arguments: tables, limits, dicts of arrays and tuples of tables
WithTable(h, len) == NewTable(h, "DataFrame", "input", << len >>)

LimKinds == {"none", "int", "list", "float"}

WithLim(h, kind) ==
    IF kind = "none" THEN h ELSE Append(h, Obj(kind, << >>, "input", << 2 >>))

LimId(h, kind) == IF kind = "none" THEN 0 ELSE Len(h)

KineticsKeys == << "t0", "alpha", "t1", "i" >>
EoKeys == << "t0", "alpha", "t1", "i", "t2", "E", "OP" >>

\* a dict of arrays of one type and length under keys; the dict is the last object
DictHeap(keys, type, len) ==
    Append([j \in 1..Len(keys) |-> Obj(type, << >>, "input", << len, j >>)],
           Obj("dict", [j \in 1..Len(keys) |-> Ref(keys[j], j)], "input", << >>))

\* a tuple of count tables, the same table twice when repeated
TupleHeap(count, len, repeated) ==
    LET h1 == WithTable(<< >>, len)
        h2 == IF count = 1 \/ repeated THEN h1 ELSE WithTable(h1, len)
    IN  Append(h2, Obj("tuple", [j \in 1..count |-> Ref(ToString(j - 1), IF j = 1 THEN 2 ELSE Len(h2))],
                       "input", << >>))

ObjCall(fn, h, args, result) ==
    /\ prog = "corr_utils" /\ call = NoCall
    /\ call' = [fn |-> fn, heap |-> h, args |-> args]
    /\ ret' = result
    /\ UNCHANGED << estVars, avgVars >>

PostprocessGnfObjects ==
    \E len \in 1..MaxArr, xlim \in LimKinds :
        LET h == WithLim(WithTable(<< >>, len), xlim)
        IN  ObjCall("postprocess_gnf", h, << 2, LimId(h, xlim) >>,
                    postprocess_gnf_objects(h, 2, LimId(h, xlim)))

CollapseDataObjects ==
    \E count \in 1..MaxArr, len \in 1..MaxArr, repeated \in BOOLEAN, xlim \in LimKinds :
        LET h0 == TupleHeap(count, len, repeated)
            h  == WithLim(h0, xlim)
        IN  ObjCall("collapse_data", h, << Len(h0), LimId(h, xlim) >>,
                    collapse_data_objects(h, Len(h0), LimId(h, xlim)))

PlotKineticsObjects ==
    \E len \in 1..MaxArr, tlim \in LimKinds, xlim \in LimKinds :
        LET h0 == WithLim(WithTable(WithTable(<< >>, len), len), tlim)
            h  == WithLim(h0, xlim)
        IN  ObjCall("plot_kinetics", h, << 2, 4, LimId(h0, tlim), LimId(h, xlim) >>,
                    plot_kinetics_objects(h, 2, 4, LimId(h0, tlim), LimId(h, xlim)))

KineticsFromLightOnObjects ==
    \E keys \in {KineticsKeys, EoKeys, << "t1", "i" >>}, type \in {"list", "ndarray"},
       len \in 1..MaxArr :
        LET h == DictHeap(keys, type, len)
        IN  ObjCall("kinetics_from_light_on", h, << Len(h) >>,
                    kinetics_from_light_on_objects(h, Len(h)))

KineticsEoSmoothObjects ==
    \E keys \in {KineticsKeys, EoKeys}, type \in {"list", "ndarray"}, len \in 1..MaxArr :
        LET h == DictHeap(keys, type, len)
        IN  ObjCall("kinetics_eo_smooth", h, << Len(h) >>,
                    kinetics_eo_smooth_objects(h, Len(h)))

CorrLengthObjects ==
    \E len \in 1..MaxArr, fitting_range \in LimKinds :
        LET h == WithLim(WithTable(<< >>, len), fitting_range)
        IN  ObjCall("corr_length", h, << 2, LimId(h, fitting_range) >>,
                    corr_length_objects(h, 2, LimId(h, fitting_range)))

XyToRObjects ==
    \E len \in 1..MaxArr :
        LET h == WithTable(<< >>, len)
        IN  ObjCall("xy_to_r", h, << 2 >>, xy_to_r_objects(h, 2))

AverageDataObjects ==
    \E nfiles \in 0..MaxArr, len \in 1..MaxArr :
        LET h == << Obj("str", << >>, "input", << >>), Obj("list", << >>, "input", << len >>) >>
        IN  ObjCall("average_data", h, << 1, 2 >>, average_data_objects(h, 2, nfiles))

\* the caller changes in place one mutable object of the result
CallerWritesResult ==
    /\ prog = "corr_utils" /\ call # NoCall /\ "heap" \in DOMAIN ret
    /\ ret.kind = "ok" /\ ~ret.written
    /\ \E id \in Reach(ret.heap, {ret.out}) :
        /\ ret.heap[id].type \in MutableTypes
        /\ ret' = [ret EXCEPT !.heap[id].val.op = "written", !.written = TRUE]
    /\ UNCHANGED << estVars, avgVars, call >>

ObjNext ==
    \/ PostprocessGnfObjects
    \/ CollapseDataObjects
    \/ PlotKineticsObjects
    \/ KineticsFromLightOnObjects
    \/ KineticsEoSmoothObjects
    \/ CorrLengthObjects
    \/ XyToRObjects
    \/ AverageDataObjects
    \/ CallerWritesResult

SpecObj == PostInit /\ [][ObjNext]_vars

-----------------------------------------------------------------------------
(***************************************************************************)
(* Properties of the objects of the post-processing functions             *)
(***************************************************************************)
ObjReturned == call # NoCall /\ ret.kind = "ok"

\* the caller's objects are as they were before the call
ArgumentsUnchanged == \A id \in 1..Len(call.heap) : ret.heap[id] = call.heap[id]

\* the mutable objects of the caller that can be reached from the result
Shared ==
    {id \in Reach(ret.heap, {ret.out}) : id <= Len(call.heap) /\ ret.heap[id].type \in MutableTypes}

\* the objects of the argument dict under the keys that start with 't'
TimeAxesOfArgument ==
    LET data == call.args[1]
    IN  {call.heap[data].refs[j].id : j \in {m \in 1..Len(call.heap[data].refs) :
                                                 StartsWithT(call.heap[data].refs[m].key)}}

(* C12: every post-processing function leaves its caller's objects         *)
(* unchanged and returns a newly built result that shares no mutable       *)
(* component with its input.                                               *)
C12_ResultSharesNothing ==
    ObjReturned =>
        /\ ~ret.written => ArgumentsUnchanged
        /\ ret.out > Len(call.heap)
        /\ Shared = {}

(* C12 as amended: every post-processing function leaves its caller's      *)
(* objects unchanged and returns a newly built container; the result of    *)
(* kinetics_eo_smooth holds under each key starting with 't' the very      *)
(* object of the argument, and nothing else of the argument; the results   *)
(* of the other functions hold no mutable object of their arguments, so no *)
(* later write to them reaches the caller's objects.                       *)
C12_OnlySmoothSharesTimeAxes ==
    ObjReturned =>
        /\ ~ret.written => ArgumentsUnchanged
        /\ ret.out > Len(call.heap)
        /\ Shared = (IF Called("kinetics_eo_smooth") THEN TimeAxesOfArgument ELSE {})
        /\ ~Called("kinetics_eo_smooth") => ArgumentsUnchanged

C12_Witness ==
    /\ ObjReturned /\ Called("kinetics_eo_smooth")
    /\ Shared # {}
    /\ ret.written /\ ~ArgumentsUnchanged

=============================================================================
